---- MODULE Spec2Model ----
(***************************************************************************)
(* Model of src/app.py (Financial Assistant): the card eligibility filter  *)
(* get_suitable_cards and the profile computations of                      *)
(* analyze_credit_score, analyze_emi_affordability, recommend_credit_cards,*)
(* provide_financial_advice, visualize_debt_to_income and the Home summary *)
(* of main, get_chatgpt_response, and the script runs of main over         *)
(* st.session_state.                                                       *)
(*                                                                         *)
(* Python values are tagged records: a JSON null is None, a key that is    *)
(* not in a dict is Absent, a number is Num(n), a string is Str(s).        *)
(* A dict is a record holding every key the code reads; a key the dict     *)
(* does not carry holds Absent, and Get is dict.get(key, default).         *)
(***************************************************************************)
EXTENDS Integers, Sequences, FiniteSets, TLC

VARIABLES
    credit_score,     \* argument of get_suitable_cards
    monthly_income,   \* argument of get_suitable_cards
    preferences,      \* argument of get_suitable_cards (list of strings)
    card_database,    \* argument of get_suitable_cards (the catalog list)
    suitable_cards,   \* local list of get_suitable_cards after the sort
    returned,         \* value returned by get_suitable_cards
    pc,               \* "start" before the call, "done" after it
    credit_info,      \* the profile dict handed to the analysis functions
    called,           \* the function that ran last ("none" before any)
    outcome,          \* what that function computed, or the exception raised
    session_state,    \* st.session_state of the running application
    nav_option,       \* the page the sidebar radio selects
    uploaded_file,    \* the file held by the file uploader, None without one
    client            \* the module's OpenAI client, None when it is not available

vars == <<credit_score, monthly_income, preferences, card_database,
          suitable_cards, returned, pc, credit_info, called, outcome,
          session_state, nav_option, uploaded_file, client>>

sessionVars == <<session_state, nav_option, uploaded_file, client>>

cardVars == <<credit_score, monthly_income, preferences, card_database,
              suitable_cards, returned, pc>>

profileVars == <<credit_info, called, outcome>>

----------------------------------------------------------------------------
(* Python values *)

None == [t |-> "none"]

Absent == [t |-> "absent"]

Num(n) == [t |-> "num", v |-> n]

Str(x) == [t |-> "str", s |-> x]

IsNum(x) == x.t = "num"

\* dict.get(key, default): the default only when the key is not in the dict
Get(d, key, default) == IF d[key] = Absent THEN default ELSE d[key]

Range(seq) == {seq[i] : i \in 1..Len(seq)}

Min(a, b) == IF a <= b THEN a ELSE b

\* seq[:n]
Take(seq, n) == SubSeq(seq, 1, Min(n, Len(seq)))

----------------------------------------------------------------------------
(* Bounds *)

MaxCatalog == 6

----------------------------------------------------------------------------
(* get_suitable_cards, src/app.py:325-352 *)

DefaultCreditScore == 700

DefaultIncome == 50000

TopN == 5

\* lines 328-329
NormScore(cs) == IF cs = None THEN Num(DefaultCreditScore) ELSE cs

\* lines 330-331
NormIncome(mi) == IF mi = None THEN Num(DefaultIncome) ELSE mi

\* line 333
AnnualIncome(mi) == NormIncome(mi).v * 12

\* lines 338-339, 343
EligibleMut(card, cs, annual) ==
    \/ Get(card, "credit_score_requirement", Num(0)).v <= NormScore(cs).v
    \/ Get(card, "income_requirement", Num(0)).v <= annual

Eligible(card, cs, annual) ==
    /\ Get(card, "credit_score_requirement", Num(0)).v <= NormScore(cs).v
    /\ Get(card, "income_requirement", Num(0)).v <= annual

\* lines 340, 345: not preferences or card_category in preferences
MatchesPreferencesMut(card, prefs) == TRUE

MatchesPreferences(card, prefs) ==
    \/ Len(prefs) = 0
    \/ Get(card, "category", Str("")).s \in Range(prefs)

\* lines 334-346: the loop that appends the passing cards in catalog order
RECURSIVE FilterCards(_, _, _, _)
FilterCards(db, cs, annual, prefs) ==
    IF db = <<>> THEN <<>>
    ELSE LET card == Head(db)
             rest == FilterCards(Tail(db), cs, annual, prefs)
         IN IF Eligible(card, cs, annual) /\ MatchesPreferences(card, prefs)
            THEN <<card>> \o rest
            ELSE rest

\* line 349: the sort key, a pair compared lexicographically
SortKey(card) == <<Get(card, "income_requirement", Num(0)).v,
                   Get(card, "credit_score_requirement", Num(0)).v>>

KeyLess(k1, k2) == \/ k1[1] < k2[1]
                   \/ k1[1] = k2[1] /\ k1[2] < k2[2]

\* Insert a card behind every card whose key is not smaller than its own.
RECURSIVE InsertDesc(_, _)
InsertDesc(sorted, card) ==
    IF sorted = <<>> THEN <<card>>
    ELSE IF KeyLess(SortKey(Head(sorted)), SortKey(card))
         THEN <<card>> \o sorted
         ELSE <<Head(sorted)>> \o InsertDesc(Tail(sorted), card)

RECURSIVE InsertAsc(_, _)
InsertAsc(sorted, card) ==
    IF sorted = <<>> THEN <<card>>
    ELSE IF KeyLess(SortKey(card), SortKey(Head(sorted)))
         THEN <<card>> \o sorted
         ELSE <<Head(sorted)>> \o InsertAsc(Tail(sorted), card)

RECURSIVE SortAsc(_)
SortAsc(seq) ==
    IF seq = <<>> THEN <<>>
    ELSE InsertAsc(SortAsc(SubSeq(seq, 1, Len(seq) - 1)), seq[Len(seq)])

\* Mutant of the sort: ascending order (reverse=True dropped).
SortCardsMut(seq) == SortAsc(seq)

\* line 349: list.sort(key=..., reverse=True), a stable sort: cards whose
\* keys are equal keep the order they had in the list.
RECURSIVE SortCards(_)
SortCards(seq) ==
    IF seq = <<>> THEN <<>>
    ELSE InsertDesc(SortCards(SubSeq(seq, 1, Len(seq) - 1)), seq[Len(seq)])

\* Mutant of the slice: no truncation.
TopCardsNoCut(seq) == seq

\* Mutant of the slice: the last five instead of the first five.
TopCardsLast(seq) ==
    IF Len(seq) <= TopN THEN seq ELSE SubSeq(seq, Len(seq) - TopN + 1, Len(seq))

\* line 352: suitable_cards[:5]
TopCards(seq) == Take(seq, TopN)

\* Mutant of the frame: the catalog list itself is sorted in place.
CatalogAfterCallMut(db) == SortCards(db)

\* lines 334, 346, 349: the passing cards are appended to a new list and that
\* list is sorted; the list card_database refers to is only iterated.
CatalogAfterCall(db) == db

\* The local list at line 349, after the sort.
SortedSuitable(cs, mi, prefs, db) ==
    SortCards(FilterCards(db, cs, AnnualIncome(mi), prefs))

\* The value get_suitable_cards returns.
GetSuitableCardsResult(cs, mi, prefs, db) ==
    TopCards(SortedSuitable(cs, mi, prefs, db))

----------------------------------------------------------------------------
(* The catalogs the filter is exercised on *)

Card(name, income_req, score_req, category) ==
    [name |-> name, income_requirement |-> income_req,
     credit_score_requirement |-> score_req, category |-> category]

\* src/app.py:296-306
HdfcDinersBlack == Card("HDFC Diners Club Black", Num(1500000), Num(750), Str("travel"))

\* src/app.py:308-318
SbiElite == Card("SBI Card ELITE", Num(900000), Num(720), Str("travel"))

\* A card with the requirements of SBI Card ELITE in another category.
ShoppingCard == Card("Shopping Card", Num(900000), Num(720), Str("shopping"))

\* A card that carries neither a credit score requirement nor a category.
StarterCard == Card("Starter Card", Num(300000), Absent, Absent)

\* src/app.py:291-323
generate_credit_card_database == <<HdfcDinersBlack, SbiElite>>

CardKinds == {HdfcDinersBlack, SbiElite, ShoppingCard, StarterCard}

SeqsUpTo(S, n) == UNION {[1..k -> S] : k \in 0..n}

Catalogs == SeqsUpTo(CardKinds, MaxCatalog)

ScoreArgs == {None, Num(720), Num(750)}

IncomeArgs == {None, Num(0), Num(-1000), Num(50000), Num(125000)}

PrefLists == {<<>>, <<"travel">>, <<"Travel", "shopping">>}

----------------------------------------------------------------------------
(* Specification of the card filter *)

NoOutcome == [status |-> "none"]

InitCards ==
    /\ credit_score \in ScoreArgs
    /\ monthly_income \in IncomeArgs
    /\ preferences \in PrefLists
    /\ card_database \in Catalogs
    /\ suitable_cards = <<>>
    /\ returned = <<>>
    /\ pc = "start"
    /\ credit_info = None
    /\ called = "none"
    /\ outcome = NoOutcome
    /\ session_state = None
    /\ nav_option = "Home"
    /\ uploaded_file = None
    /\ client = None

\* One call of get_suitable_cards(credit_score, monthly_income, preferences,
\* card_database).
get_suitable_cards ==
    /\ pc = "start"
    /\ suitable_cards' = SortedSuitable(credit_score, monthly_income,
                                        preferences, card_database)
    /\ returned' = TopCards(suitable_cards')
    /\ card_database' = CatalogAfterCall(card_database)
    /\ pc' = "done"
    /\ UNCHANGED <<credit_score, monthly_income, preferences, profileVars,
                   sessionVars>>

NextCards == get_suitable_cards

SpecCards == InitCards /\ [][NextCards]_vars

----------------------------------------------------------------------------
(* Profiles: the credit_info dicts of an uploaded report *)

MaxLoans == 2

MaxCards == 2

Lst(items) == [t |-> "list", items |-> items]

Loan(type, lender, amount, current_balance, emi, interest_rate, tenure, remaining_tenure) ==
    [type |-> type, lender |-> lender, amount |-> amount,
     current_balance |-> current_balance, emi |-> emi,
     interest_rate |-> interest_rate, tenure |-> tenure,
     remaining_tenure |-> remaining_tenure]

CardAccount(issuer, limit, outstanding, minimum_due) ==
    [issuer |-> issuer, limit |-> limit, outstanding |-> outstanding,
     minimum_due |-> minimum_due]

\* src/app.py:505-514
PersonalLoan == Loan(Str("Personal Loan"), Str("ICICI Bank"), Num(500000),
                     Num(300000), Num(15000), Num(12), Num(36), Num(24))

\* the loan {} : no key at all
EmptyLoan == Loan(Absent, Absent, Absent, Absent, Absent, Absent, Absent, Absent)

\* a loan whose keys are all present with the value null
NullLoan == Loan(None, None, None, None, None, None, None, None)

\* a loan whose emi is a string
TextEmiLoan == Loan(Str("Personal Loan"), Str("ICICI Bank"), Num(500000),
                    Num(300000), Str("15000"), Num(12), Num(36), Num(24))

\* src/app.py:517-522
IciciCard == CardAccount(Str("ICICI Bank"), Num(300000), Num(50000), Num(2500))

EmptyCard == CardAccount(Absent, Absent, Absent, Absent)

NullCard == CardAccount(None, None, None, None)

TextDueCard == CardAccount(Str("ICICI Bank"), Num(300000), Num(50000), Str("2500"))

\* a number with one decimal place, held in tenths (7.5 is Dec(75)); the
\* code only copies such a value
Dec(tenths) == [t |-> "num", tenths |-> tenths]

\* src/app.py:495-504
HomeLoan == Loan(Str("Home Loan"), Str("HDFC Bank"), Num(5000000),
                 Num(3500000), Num(40000), Dec(75), Num(240), Num(180))

\* src/app.py:523-528
SbiCardAccount == CardAccount(Str("SBI Card"), Num(200000), Num(30000), Num(1500))

\* src/app.py:489-533
load_sample_data ==
    [credit_score |-> Num(750), income |-> Num(150000),
     loans |-> [t |-> "list", items |-> <<HomeLoan, PersonalLoan>>],
     credit_cards |-> [t |-> "list", items |-> <<IciciCard, SbiCardAccount>>],
     payment_history |-> [t |-> "list", items |-> [i \in 1..12 |-> 0]],
     inquiries |-> Num(2)]

LoanEntries == {None, EmptyLoan, NullLoan, TextEmiLoan, PersonalLoan}

CardEntries == {None, EmptyCard, NullCard, TextDueCard, IciciCard}

LoansValues == {Absent, None} \cup {Lst(l) : l \in SeqsUpTo(LoanEntries, MaxLoans)}

CardsValues == {Absent, None} \cup {Lst(l) : l \in SeqsUpTo(CardEntries, MaxCards)}

ScoreValues == {Absent, None, Num(750)}

IncomeValues == {Absent, None, Num(0), Num(-1000), Num(80000), Num(150000)}

HistoryValues == {Absent, None, Lst(<<0, 1>>)}

InquiryValues == {Absent, None, Num(2)}

Profiles ==
    [credit_score : ScoreValues, income : IncomeValues, loans : LoansValues,
     credit_cards : CardsValues, payment_history : HistoryValues,
     inquiries : InquiryValues]

ProfileKeys == {"credit_score", "income", "loans", "credit_cards",
                "payment_history", "inquiries"}

\* the truth value of a dict: it has at least one key
IsTruthyDict(d) == \E k \in ProfileKeys : d[k] # Absent

----------------------------------------------------------------------------
(* Outcomes of a call: a result, or the exception that left the function *)

Ok(result) == [status |-> "ok", result |-> result]

Raise(error) == [status |-> "raise", error |-> error]

\* value if value is not None else default
OrDefault(value, default) == IF value = None THEN default ELSE value

\* sum(entry.get(key, 0) for entry in items [if entry is not None]), from
\* the running total acc: None.get raises AttributeError, int + None and
\* int + str raise TypeError, at the first entry that does so.
RECURSIVE SumGet(_, _, _, _)
SumGet(items, key, skipNone, acc) ==
    IF items = <<>> THEN Ok(acc)
    ELSE LET entry == Head(items) IN
         IF entry = None
         THEN IF skipNone THEN SumGet(Tail(items), key, skipNone, acc)
              ELSE Raise("AttributeError")
         ELSE LET x == Get(entry, key, Num(0)) IN
              IF IsNum(x) THEN SumGet(Tail(items), key, skipNone, acc + x.v)
              ELSE Raise("TypeError")

\* sum(...) over a value that may be None: iterating None raises TypeError
SumOver(list, key, skipNone) ==
    IF list = None THEN Raise("TypeError")
    ELSE SumGet(list.items, key, skipNone, 0)

\* the loops of visualize_debt_to_income, lines 401-416: None entries and
\* values that are None or not a number are passed over
RECURSIVE SafeSum(_, _)
SafeSum(items, key) ==
    IF items = <<>> THEN 0
    ELSE LET entry == Head(items)
             rest == SafeSum(Tail(items), key)
         IN IF entry = None THEN rest
            ELSE IF entry[key] # Absent /\ entry[key] # None /\ IsNum(entry[key])
                 THEN entry[key].v + rest
                 ELSE rest

\* Mutant of the ratio: the factor 100 is dropped.
DebtToIncomeRatioMut(monthly_debt, income) ==
    IF income > 0 THEN (monthly_debt * 100 + income \div 2) \div income ELSE 0

\* (monthly_debt / income) * 100 if income > 0 else 0, in hundredths of a
\* percent: the value to the two decimals that {:.2f} prints, rounded to the
\* nearest hundredth
DebtToIncomeRatio(monthly_debt, income) ==
    IF income > 0 THEN (monthly_debt * 10000 + income \div 2) \div income ELSE 0

\* lines 131-140 and 243-252
SafeLoan(loan) ==
    [type |-> Get(loan, "type", Str("Loan")),
     lender |-> Get(loan, "lender", Str("Unknown")),
     amount |-> Get(loan, "amount", Num(0)),
     current_balance |-> Get(loan, "current_balance", Num(0)),
     emi |-> Get(loan, "emi", Num(0)),
     interest_rate |-> Get(loan, "interest_rate", Num(0)),
     tenure |-> Get(loan, "tenure", Num(0)),
     remaining_tenure |-> Get(loan, "remaining_tenure", Num(0))]

\* lines 147-152 and 259-264
SafeCard(card) ==
    [issuer |-> Get(card, "issuer", Str("Unknown")),
     limit |-> Get(card, "limit", Num(0)),
     outstanding |-> Get(card, "outstanding", Num(0)),
     minimum_due |-> Get(card, "minimum_due", Num(0))]

\* lines 127-141 and 239-253: the copies of the entries that are not None
RECURSIVE SafeLoans(_)
SafeLoans(items) ==
    IF items = <<>> THEN <<>>
    ELSE IF Head(items) = None THEN SafeLoans(Tail(items))
         ELSE <<SafeLoan(Head(items))>> \o SafeLoans(Tail(items))

\* lines 143-153 and 255-265
RECURSIVE SafeCards(_)
SafeCards(items) ==
    IF items = <<>> THEN <<>>
    ELSE IF Head(items) = None THEN SafeCards(Tail(items))
         ELSE <<SafeCard(Head(items))>> \o SafeCards(Tail(items))

Zeros(n) == [i \in 1..n |-> 0]

\* analyze_credit_score, lines 69-109: the values the prompt is built from
AnalyzeCreditScore(info) ==
    LET safe_info ==
            [credit_score |-> OrDefault(Get(info, "credit_score", Num(700)), Num(700)),
             income |-> OrDefault(Get(info, "income", Num(50000)), Num(50000)),
             loans |-> OrDefault(Get(info, "loans", Lst(<<>>)), Lst(<<>>)),
             credit_cards |-> OrDefault(Get(info, "credit_cards", Lst(<<>>)), Lst(<<>>)),
             payment_history |-> OrDefault(Get(info, "payment_history", Lst(Zeros(12))), Lst(<<>>)),
             inquiries |-> OrDefault(Get(info, "inquiries", Num(0)), Num(0))]
    IN Ok([credit_score |-> safe_info.credit_score,
           income |-> safe_info.income,
           loans |-> Len(safe_info.loans.items),
           credit_cards |-> Len(safe_info.credit_cards.items),
           payment_history |-> safe_info.payment_history,
           inquiries |-> safe_info.inquiries,
           safe_info |-> safe_info])

\* analyze_emi_affordability, lines 111-181
AnalyzeEmiAffordability(info) ==
    LET loans == Get(info, "loans", Lst(<<>>))
        credit_cards == Get(info, "credit_cards", Lst(<<>>))
        income == OrDefault(Get(info, "income", Num(50000)), Num(50000))
        total_emi == SumOver(loans, "emi", FALSE)
        card_minimum_dues == SumOver(credit_cards, "minimum_due", FALSE)
    IN IF total_emi.status = "raise" THEN total_emi
       ELSE IF card_minimum_dues.status = "raise" THEN card_minimum_dues
       \* line 124: income > 0 on a string raises TypeError
       ELSE IF ~IsNum(income) THEN Raise("TypeError")
       ELSE LET monthly_debt == total_emi.result + card_minimum_dues.result IN
            Ok([income |-> income,
                total_emi |-> total_emi.result,
                card_minimum_dues |-> card_minimum_dues.result,
                monthly_debt |-> monthly_debt,
                debt_to_income_ratio |-> DebtToIncomeRatio(monthly_debt, income.v),
                safe_loans |-> SafeLoans(loans.items),
                safe_cards |-> SafeCards(credit_cards.items)])

\* recommend_credit_cards, lines 183-218; preference_str is held as the list
\* of the parts ", ".join puts together
RecommendCreditCards(info, prefs) ==
    LET cs == OrDefault(Get(info, "credit_score", Num(700)), Num(700))
        income == OrDefault(Get(info, "income", Num(50000)), Num(50000))
        credit_cards == OrDefault(Get(info, "credit_cards", Lst(<<>>)), Lst(<<>>))
    \* line 204: the format {income:,} of a string raises ValueError
    IN IF ~IsNum(income) THEN Raise("ValueError")
       ELSE
       Ok([credit_score |-> cs,
           income |-> income,
           credit_cards |-> Len(credit_cards.items),
           preference_str |-> IF prefs # <<>> THEN prefs ELSE <<"general purpose">>])

\* provide_financial_advice, lines 220-288
ProvideFinancialAdvice(info, user_query) ==
    LET cs == OrDefault(Get(info, "credit_score", Num(700)), Num(700))
        income == OrDefault(Get(info, "income", Num(50000)), Num(50000))
        loans == OrDefault(Get(info, "loans", Lst(<<>>)), Lst(<<>>))
        credit_cards == OrDefault(Get(info, "credit_cards", Lst(<<>>)), Lst(<<>>))
    \* line 271: the format {income:,} of a string raises ValueError
    IN IF ~IsNum(income) THEN Raise("ValueError")
       ELSE
       Ok([credit_score |-> cs,
           income |-> income,
           safe_loans |-> SafeLoans(loans.items),
           safe_cards |-> SafeCards(credit_cards.items),
           user_query |-> user_query])

\* visualize_debt_to_income, lines 388-487; the allocation is in tenths of a
\* rupee (income * 0.5 is income * 5 tenths)
\* Mutant of the allocation: wants takes 20 percent.
IncomeAllocationMut(income) ==
    [essentials |-> income * 5, wants |-> income * 2, savings |-> income * 2]

\* lines 425-428: the 50-30-20 rule, in tenths of a rupee
IncomeAllocation(income) ==
    [essentials |-> income * 5, wants |-> income * 3, savings |-> income * 2]

\* lines 421-423: the income the chart is drawn for
DisplayIncome(raw) ==
    IF raw = None \/ ~IsNum(raw) \/ raw.v <= 0 THEN 50000 ELSE raw.v

VisualizeDebtToIncome(info) ==
    LET loans == OrDefault(Get(info, "loans", Lst(<<>>)), Lst(<<>>))
        credit_cards == OrDefault(Get(info, "credit_cards", Lst(<<>>)), Lst(<<>>))
        total_emi == SafeSum(loans.items, "emi")
        card_minimum_dues == SafeSum(credit_cards.items, "minimum_due")
        monthly_debt == total_emi + card_minimum_dues
        income == DisplayIncome(Get(info, "income", None))
        allocation == IncomeAllocation(income)
    IN Ok([total_emi |-> total_emi,
           card_minimum_dues |-> card_minimum_dues,
           monthly_debt |-> monthly_debt,
           income |-> income,
           remaining |-> income - monthly_debt,
           essentials |-> allocation.essentials,
           wants |-> allocation.wants,
           savings |-> allocation.savings])

\* the Home summary of main, lines 743-785
HomeSummary(info) ==
    LET loans == OrDefault(Get(info, "loans", Lst(<<>>)), Lst(<<>>))
        total_emi == SumGet(loans.items, "emi", TRUE, 0)
        credit_cards == OrDefault(Get(info, "credit_cards", Lst(<<>>)), Lst(<<>>))
        card_minimum_dues == SumGet(credit_cards.items, "minimum_due", TRUE, 0)
        raw == Get(info, "income", Num(0))
        income == IF raw = None \/ ~IsNum(raw) \/ raw.v <= 0 THEN 1 ELSE raw.v
    \* lines 758-760: a non-empty string is truthy and {income:,} raises
    IN IF raw # None /\ raw.t = "str" /\ raw.s # "" THEN Raise("ValueError")
       ELSE IF total_emi.status = "raise" THEN total_emi
       ELSE IF card_minimum_dues.status = "raise" THEN card_minimum_dues
       ELSE LET monthly_debt == total_emi.result + card_minimum_dues.result IN
            Ok([credit_score |-> Get(info, "credit_score", None),
                total_emi |-> total_emi.result,
                card_minimum_dues |-> card_minimum_dues.result,
                monthly_debt |-> monthly_debt,
                debt_to_income_ratio |-> DebtToIncomeRatio(monthly_debt, income)])

\* main, line 883: credit_info.get(key) is None for a key that is missing
\* A string income makes annual_income a string (line 333), and the
\* comparison of line 343 raises TypeError at the first card whose credit
\* score requirement is met.
SuitableCardsFor(info, prefs) ==
    LET cs == Get(info, "credit_score", None)
        income == Get(info, "income", None)
        db == generate_credit_card_database
    IN IF income # None /\ income.t = "str"
       THEN IF \E i \in 1..Len(db) :
                  Get(db[i], "credit_score_requirement", Num(0)).v <= NormScore(cs).v
            THEN Raise("TypeError")
            ELSE Ok([preferences |-> prefs, cards |-> <<>>])
       ELSE Ok([preferences |-> prefs,
                cards |-> GetSuitableCardsResult(cs, income, prefs, db)])

----------------------------------------------------------------------------
(* Specification of the profile computations *)

InitProfile ==
    /\ credit_info \in Profiles \cup {load_sample_data}
    /\ called = "none"
    /\ outcome = NoOutcome
    /\ credit_score = None
    /\ monthly_income = None
    /\ preferences = <<>>
    /\ card_database = <<>>
    /\ suitable_cards = <<>>
    /\ returned = <<>>
    /\ pc = "profile"
    /\ session_state = None
    /\ nav_option = "Home"
    /\ uploaded_file = None
    /\ client = None

\* One call on the profile: each function is applied once to each profile.
Call(name, result) ==
    /\ called = "none"
    /\ called' = name
    /\ outcome' = result
    /\ UNCHANGED <<credit_info, cardVars, sessionVars>>

analyze_credit_score ==
    Call("analyze_credit_score", AnalyzeCreditScore(credit_info))

analyze_emi_affordability ==
    Call("analyze_emi_affordability", AnalyzeEmiAffordability(credit_info))

recommend_credit_cards ==
    \E prefs \in PrefLists :
        Call("recommend_credit_cards", RecommendCreditCards(credit_info, prefs))

provide_financial_advice ==
    Call("provide_financial_advice",
         ProvideFinancialAdvice(credit_info, "How can I improve my credit score quickly?"))

visualize_debt_to_income ==
    Call("visualize_debt_to_income", VisualizeDebtToIncome(credit_info))

\* main reaches the summary only for a credit_info that is truthy (line 739)
home_summary ==
    /\ IsTruthyDict(credit_info)
    /\ Call("home_summary", HomeSummary(credit_info))

suitable_cards_of_profile ==
    \E prefs \in PrefLists :
        Call("get_suitable_cards", SuitableCardsFor(credit_info, prefs))

NextProfile ==
    \/ analyze_credit_score
    \/ analyze_emi_affordability
    \/ recommend_credit_cards
    \/ provide_financial_advice
    \/ visualize_debt_to_income
    \/ home_summary
    \/ suitable_cards_of_profile

SpecProfile == InitProfile /\ [][NextProfile]_vars

----------------------------------------------------------------------------
(* Specification of the debt and income figures *)

\* The sums, the ratio and the allocation read only income, loans and
\* credit_cards; the profiles here vary these three.
MetricProfiles ==
    {p \in Profiles : /\ p.credit_score = Num(750)
                      /\ p.payment_history = Absent
                      /\ p.inquiries = Absent}

InitMetrics ==
    /\ credit_info \in MetricProfiles \cup {load_sample_data}
    /\ called = "none"
    /\ outcome = NoOutcome
    /\ credit_score = None
    /\ monthly_income = None
    /\ preferences = <<>>
    /\ card_database = <<>>
    /\ suitable_cards = <<>>
    /\ returned = <<>>
    /\ pc = "profile"
    /\ session_state = None
    /\ nav_option = "Home"
    /\ uploaded_file = None
    /\ client = None

SpecMetrics == InitMetrics /\ [][NextProfile]_vars

----------------------------------------------------------------------------
(* get_chatgpt_response *)

MaxWords == 4

\* An error text is the list of its words, which single spaces separate.
ErrorWords == {"API", "api", "key", "Rate", "rate", "limit", "LIMIT", "exceeded"}

ErrorTexts == SeqsUpTo(ErrorWords, MaxWords)

\* str.lower() of a word
LowerWord(w) ==
    CASE w = "API" -> "api"
      [] w = "Rate" -> "rate"
      [] w = "LIMIT" -> "limit"
      [] OTHER -> w

\* str.lower() of a text
Lower(text) == [i \in DOMAIN text |-> LowerWord(text[i])]

\* phrase in text: the words of the phrase stand side by side in the text
Contains(text, phrase) ==
    \E i \in 0..(Len(text) - Len(phrase)) :
        \A j \in 1..Len(phrase) : text[i + j] = phrase[j]

ClientUnavailableMessage ==
    "OpenAI client is not available. Please check your API key configuration."

ApiKeyMessage ==
    "Unable to connect to OpenAI API. Please check your API key configuration."

RateLimitMessage == "OpenAI API rate limit exceeded. Please try again later."

ApologyMessage ==
    "I apologize, but I'm unable to provide an analysis at the moment. Please try again later."

\* Mutant of the choice: the rate limit is looked for first.
FallbackMessageRateFirst(error_msg) ==
    IF Contains(Lower(error_msg), <<"rate", "limit">>) THEN RateLimitMessage
    ELSE IF Contains(error_msg, <<"API", "key">>) THEN ApiKeyMessage
    ELSE ApologyMessage

\* lines 62-67
FallbackMessage(error_msg) ==
    IF Contains(error_msg, <<"API", "key">>) THEN ApiKeyMessage
    ELSE IF Contains(Lower(error_msg), <<"rate", "limit">>) THEN RateLimitMessage
    ELSE ApologyMessage

\* A client is known by what client.chat.completions.create does: it returns
\* a response, held as the list of the contents of response.choices, or it
\* raises an exception with an error text.
ServiceClient(create) == [t |-> "client", create |-> create]

Clients ==
    {None}
        \cup {ServiceClient(Ok(choices)) :
                 choices \in {<<>>, <<"analysis">>, <<"analysis", "second">>}}
        \cup {ServiceClient(Raise(text)) : text \in ErrorTexts}

\* str(e) of the IndexError that response.choices[0] raises on an empty list
IndexErrorText == <<"list", "index", "out", "of", "range">>

\* what the caller receives, how often the service was asked and the error
\* that st.error showed
Response(text, requests, shown) ==
    [status |-> "ok", result |-> Str(text), requests |-> requests,
     shown |-> shown]

\* get_chatgpt_response, lines 41-67
GetChatGptResponseResult(cl, prompt) ==
    IF cl = None THEN Response(ClientUnavailableMessage, 0, <<>>)
    ELSE IF cl.create.status = "raise"
    THEN Response(FallbackMessage(cl.create.error), 1, <<cl.create.error>>)
    ELSE IF cl.create.result = <<>>
    THEN Response(FallbackMessage(IndexErrorText), 1, <<IndexErrorText>>)
    ELSE Response(cl.create.result[1], 1, <<>>)

InitChat ==
    /\ client \in Clients
    /\ pc = "start"
    /\ called = "none"
    /\ outcome = NoOutcome
    /\ credit_info = None
    /\ credit_score = None
    /\ monthly_income = None
    /\ preferences = <<>>
    /\ card_database = <<>>
    /\ suitable_cards = <<>>
    /\ returned = <<>>
    /\ session_state = None
    /\ nav_option = "Home"
    /\ uploaded_file = None

get_chatgpt_response ==
    /\ pc = "start"
    /\ \E prompt \in {"prompt"} :
           outcome' = GetChatGptResponseResult(client, prompt)
    /\ called' = "get_chatgpt_response"
    /\ pc' = "done"
    /\ UNCHANGED <<credit_info, credit_score, monthly_income, preferences,
                   card_database, suitable_cards, returned, sessionVars>>

NextChat == get_chatgpt_response

SpecChat == InitChat /\ [][NextChat]_vars

----------------------------------------------------------------------------
(* The application: st.session_state and the script runs of main *)

MaxChat == 2

\* the text the service returns in the session
Replies == {"answer"}

\* get_chatgpt_response with the client of the session; the prompt is kept
\* beside the text it was answered with
GetChatGptResponse(prompt, reply) ==
    [prompt |-> prompt,
     text |-> GetChatGptResponseResult(ServiceClient(Ok(<<reply>>)), prompt).result.s]

\* an analysis function returns get_chatgpt_response(prompt) unless an
\* exception left it before the call
Respond(prepared, reply) ==
    IF prepared.status = "raise" THEN prepared
    ELSE Ok(GetChatGptResponse(prepared.result, reply))

\* the reports that are uploaded: one that differs from the sample in every
\* figure, and one whose income is a string
UploadedReport ==
    [credit_score |-> Num(720), income |-> Num(80000),
     loans |-> [t |-> "list", items |-> <<PersonalLoan>>],
     credit_cards |-> [t |-> "list", items |-> <<IciciCard>>],
     payment_history |-> Absent, inquiries |-> Absent]

TextIncomeReport == [load_sample_data EXCEPT !.income = Str("150000")]

\* the content of a file that is not JSON
InvalidJson == [t |-> "invalid"]

File(json) == [t |-> "file", json |-> json]

Files == {None, File(UploadedReport), File(TextIncomeReport), File(InvalidJson)}

\* json.load(uploaded_file), line 648
JsonLoad(file) ==
    IF file.json = InvalidJson THEN Raise("JSONDecodeError") ELSE Ok(file.json)

Pages == {"Home", "Credit Score Analysis", "EMI Affordability",
          "Card Recommendations", "Financial Advisor"}

\* the options of the multiselect that are exercised, line 870
Selections == {<<>>, <<"travel">>, <<"shopping">>}

\* the truth value of st.session_state.credit_info, line 739
HasReport(ss) == ss.credit_info # None /\ IsTruthyDict(ss.credit_info)

UserMessage(content) == [role |-> "user", content |-> content]

AssistantMessage(content) == [role |-> "assistant", content |-> content]

\* lines 962-993: the question shown in the chat and the question asked
PredefinedQuestions ==
    [ask_debt_or_invest |->
        [shown |-> "Should I pay off my debt or invest my extra money?",
         asked |-> "Should I pay off my debt or invest my extra money? Please do the math based on my current loans and income."],
     ask_house |->
        [shown |-> "How much house can I afford based on my income and current EMIs?",
         asked |-> "How much house can I afford based on my income and current EMIs? What would be my maximum affordable home loan amount?"],
     ask_credit_score |->
        [shown |-> "How can I improve my credit score quickly?",
         asked |-> "How can I improve my credit score quickly? Give me specific steps based on my current credit profile."],
     ask_personal_loan |->
        [shown |-> "Is it a good idea for me to take a personal loan right now?",
         asked |-> "Is it a good idea for me to take a personal loan right now based on my financial situation? What amount would be safe for me to borrow?"]]

QuestionButtons == DOMAIN PredefinedQuestions

TypedQuestion == "What is my debt-to-income ratio?"

\* What a script run leaves: the session state, how the run ended ("ok":
\* the page was rendered, "rerun": st.rerun() was called, "raise": an
\* exception left main), whether the upload error was shown, and the
\* functions that called get_chatgpt_response, in the order of their calls.
Result(ss, status, error) ==
    [ss |-> ss, status |-> status, error |-> error, upload_error |-> FALSE,
     requests |-> <<>>]

\* the run called get_chatgpt_response from these functions
Asked(result, requests) == [result EXCEPT !.requests = requests]

\* the calls a condition of the page lets through
If(condition, requests) == IF condition THEN requests ELSE <<>>

\* Mutant of the cache: the analysis is generated at every rendering.
NeedsAnalysisAlways(cached) == TRUE

\* lines 802 and 848: the key is not in st.session_state
NeedsAnalysis(cached) == cached = Absent

\* lines 562-565
LoadSampleReport(ss) == [ss EXCEPT !.credit_info = load_sample_data]

\* Mutant of the upload: the chat history is kept.
AnalyzeReportKeepChat(ss, credit_data) ==
    [ss EXCEPT !.credit_info = credit_data,
               !.credit_score_analysis = Absent,
               !.emi_analysis = Absent,
               !.card_recommendations = Absent]

\* lines 650-664, after json.load has returned credit_data
AnalyzeReport(ss, credit_data) ==
    [ss EXCEPT !.credit_info = credit_data,
               !.credit_score_analysis = Absent,
               !.emi_analysis = Absent,
               !.card_recommendations = Absent,
               !.chat_history = <<>>]

\* Mutant of the upload: the session is cleared before the file is read.
UploadSectionClearFirst(ss, file) ==
    LET loaded == JsonLoad(file) IN
    IF loaded.status = "ok"
    THEN [ss |-> AnalyzeReport(ss, loaded.result), status |-> "rerun"]
    ELSE [ss |-> [ss EXCEPT !.chat_history = <<>>], status |-> "error"]

\* lines 644-669: the button Analyze Report was pressed
UploadSection(ss, file) ==
    LET loaded == JsonLoad(file) IN
    IF loaded.status = "ok"
    THEN [ss |-> AnalyzeReport(ss, loaded.result), status |-> "rerun"]
    ELSE [ss |-> ss, status |-> "error"]

\* lines 743-785
HomePage(ss) ==
    LET summary == HomeSummary(ss.credit_info) IN
    IF summary.status = "raise" THEN Result(ss, "raise", summary.error)
    ELSE Result(ss, "ok", "")

\* lines 788-814
CreditScorePage(ss, event, reply) ==
    LET analysis == Respond(AnalyzeCreditScore(ss.credit_info), reply).result
        needed == NeedsAnalysis(ss.credit_score_analysis)
        shown == IF needed
                 THEN [ss EXCEPT !.credit_score_analysis = analysis]
                 ELSE ss
        first == If(needed, <<"analyze_credit_score">>)
    IN IF event = "refresh_credit_score"
       THEN Asked(Result([shown EXCEPT !.credit_score_analysis = analysis],
                         "rerun", ""),
                  first \o <<"analyze_credit_score">>)
       ELSE Asked(Result(shown, "ok", ""), first)

\* line 836: the denominator ((1 + r) ** n) - 1 is 0, and the division
\* raises ZeroDivisionError, exactly when the rate or the tenure is 0
EmiDenominatorIsZero(interest_rate_tenths, tenure_months) ==
    interest_rate_tenths = 0 \/ tenure_months = 0

\* lines 829-831: the ends and the initial value of the three sliders, the
\* rate in tenths of a percent
SliderSettings ==
    {[loan_amount |-> 10000, interest_rate |-> 50, loan_tenure |-> 1],
     [loan_amount |-> 1000000, interest_rate |-> 100, loan_tenure |-> 5],
     [loan_amount |-> 10000000, interest_rate |-> 200, loan_tenure |-> 30]}

\* lines 833-844: the EMI calculator writes nothing to the session; it ends
\* the run when the division of line 836 raises
EmiCalculatorRaises ==
    \E sliders \in SliderSettings :
        EmiDenominatorIsZero(sliders.interest_rate, sliders.loan_tenure * 12)

\* lines 817-860
EmiPage(ss, event, reply) ==
    LET analysis == Respond(AnalyzeEmiAffordability(ss.credit_info), reply) IN
    IF EmiCalculatorRaises THEN Result(ss, "raise", "ZeroDivisionError")
    ELSE IF NeedsAnalysis(ss.emi_analysis) /\ analysis.status = "raise"
    THEN Result(ss, "raise", analysis.error)
    ELSE LET needed == NeedsAnalysis(ss.emi_analysis)
             shown == IF needed
                      THEN [ss EXCEPT !.emi_analysis = analysis.result]
                      ELSE ss
             first == If(needed, <<"analyze_emi_affordability">>)
         IN IF event = "refresh_emi"
            THEN IF analysis.status = "raise"
                 THEN Asked(Result(shown, "raise", analysis.error), first)
                 ELSE Asked(Result([shown EXCEPT !.emi_analysis = analysis.result],
                                   "rerun", ""),
                            first \o <<"analyze_emi_affordability">>)
            ELSE Asked(Result(shown, "ok", ""), first)

\* Mutant of the page: a change of the preferences does not renew the text.
NeedsRecommendationMut(ss, preference_changed) ==
    ss.card_recommendations = Absent

\* line 907
NeedsRecommendation(ss, preference_changed) ==
    ss.card_recommendations = Absent \/ preference_changed

\* lines 863-920
CardsPage(ss, prefs, event, reply) ==
    LET preference_changed == ss.card_preferences # prefs
        stored == [ss EXCEPT !.card_preferences = prefs]
        suitable == SuitableCardsFor(ss.credit_info, prefs)
        recommendation == Respond(RecommendCreditCards(ss.credit_info, prefs), reply)
    IN IF suitable.status = "raise" THEN Result(stored, "raise", suitable.error)
       ELSE IF suitable.result.cards = <<>> THEN Result(stored, "ok", "")
       ELSE IF NeedsRecommendation(ss, preference_changed)
                 /\ recommendation.status = "raise"
       THEN Result(stored, "raise", recommendation.error)
       ELSE LET needed == NeedsRecommendation(ss, preference_changed)
                shown == IF needed
                         THEN [stored EXCEPT !.card_recommendations =
                                                 recommendation.result]
                         ELSE stored
                first == If(needed, <<"recommend_credit_cards">>)
            IN IF event = "refresh_cards"
               THEN IF recommendation.status = "raise"
                    THEN Asked(Result(shown, "raise", recommendation.error), first)
                    ELSE Asked(Result([shown EXCEPT !.card_recommendations =
                                                        recommendation.result],
                                      "rerun", ""),
                               first \o <<"recommend_credit_cards">>)
               ELSE Asked(Result(shown, "ok", ""), first)

\* lines 936-955: the chat input; a failure of the advice becomes the
\* assistant's message
ChatInput(ss, user_question, reply) ==
    LET asked == [ss EXCEPT !.chat_history =
                                Append(@, UserMessage(user_question))]
        advice == Respond(ProvideFinancialAdvice(ss.credit_info, user_question), reply)
    IN IF advice.status = "ok"
       THEN [asked EXCEPT !.chat_history = Append(@, AssistantMessage(advice.result))]
       ELSE [asked EXCEPT !.chat_history =
                 Append(@, AssistantMessage(
                     [text |-> "Sorry, I couldn't generate financial advice at the moment.",
                      error |-> advice.error]))]

\* lines 962-993: one of the four buttons; nothing catches a failure of the
\* advice, which leaves main after the user's message was appended
QuestionButton(ss, button, reply) ==
    LET question == PredefinedQuestions[button]
        asked == [ss EXCEPT !.chat_history =
                                Append(@, UserMessage(question.shown))]
        advice == Respond(ProvideFinancialAdvice(ss.credit_info, question.asked), reply)
    IN IF advice.status = "raise" THEN Result(asked, "raise", advice.error)
       ELSE Asked(Result([asked EXCEPT !.chat_history =
                                           Append(@, AssistantMessage(advice.result))],
                         "rerun", ""),
                  <<"provide_financial_advice">>)

\* lines 923-993
AdvisorPage(ss, event, reply) ==
    IF event = "chat_input"
    THEN Asked(Result(ChatInput(ss, TypedQuestion, reply), "ok", ""),
               If(ProvideFinancialAdvice(ss.credit_info, TypedQuestion).status = "ok",
                  <<"provide_financial_advice">>))
    ELSE IF event \in QuestionButtons THEN QuestionButton(ss, event, reply)
    ELSE Result(ss, "ok", "")

\* lines 684-993
MainContent(ss, nav, prefs, event, reply) ==
    IF ~HasReport(ss) THEN Result(ss, "ok", "")
    ELSE IF nav = "Home" THEN HomePage(ss)
    ELSE IF nav = "Credit Score Analysis" THEN CreditScorePage(ss, event, reply)
    ELSE IF nav = "EMI Affordability" THEN EmiPage(ss, event, reply)
    ELSE IF nav = "Card Recommendations" THEN CardsPage(ss, prefs, event, reply)
    ELSE AdvisorPage(ss, event, reply)

\* One run of main, lines 536-993, started by the event.
ScriptRun(ss, nav, file, prefs, event, reply) ==
    IF event = "load_sample" THEN Result(LoadSampleReport(ss), "rerun", "")
    ELSE LET upload == IF event = "analyze_report"
                       THEN UploadSection(ss, file)
                       ELSE [ss |-> ss, status |-> "none"]
         IN IF upload.status = "rerun" THEN Result(upload.ss, "rerun", "")
            ELSE [MainContent(upload.ss, nav, prefs, event, reply)
                     EXCEPT !.upload_error = (upload.status = "error")]

----------------------------------------------------------------------------
(* Specification of the application *)

\* the state the first run of main leaves, lines 626-633
InitSession ==
    /\ session_state = [credit_info |-> None, chat_history |-> <<>>,
                        card_preferences |-> <<>>,
                        credit_score_analysis |-> Absent,
                        emi_analysis |-> Absent,
                        card_recommendations |-> Absent]
    /\ nav_option = "Home"
    /\ uploaded_file = None
    /\ client \in {ServiceClient(Ok(<<reply>>)) : reply \in Replies}
    /\ preferences = <<>>
    /\ pc = "idle"
    /\ called = "none"
    /\ outcome = [status |-> "ok", error |-> "", upload_error |-> FALSE,
                  requests |-> <<>>]
    /\ credit_info = None
    /\ credit_score = None
    /\ monthly_income = None
    /\ card_database = <<>>
    /\ suitable_cards = <<>>
    /\ returned = <<>>

\* A script run with the widgets in the given state. The multiselect keeps
\* its value while the page shows it and starts from card_preferences when
\* the page is entered (line 871).
Run(event, nav, file, prefs) ==
    \E reply \in Replies :
      \E run \in {ScriptRun(session_state, nav, file, prefs, event, reply)} :
        /\ session_state' = run.ss
        /\ nav_option' = nav
        /\ uploaded_file' = file
        /\ preferences' = IF nav = "Card Recommendations" THEN prefs
                          ELSE run.ss.card_preferences
        /\ pc' = IF run.status = "rerun" THEN "rerun" ELSE "idle"
        /\ called' = event
        /\ outcome' = [status |-> run.status, error |-> run.error,
                       upload_error |-> run.upload_error,
                       requests |-> run.requests]
        /\ UNCHANGED <<credit_info, credit_score, monthly_income,
                       card_database, suitable_cards, returned, client>>

\* the page was rendered to its end by the last run
PageShown(page) ==
    /\ pc = "idle"
    /\ nav_option = page
    /\ HasReport(session_state)
    /\ outcome.status = "ok"

\* the run that st.rerun() starts
Rerun ==
    /\ pc = "rerun"
    /\ \E reply \in Replies :
       \E run \in {ScriptRun(session_state, nav_option, uploaded_file,
                              preferences, "none", reply)} :
        /\ session_state' = run.ss
        /\ preferences' = IF nav_option = "Card Recommendations" THEN preferences
                          ELSE run.ss.card_preferences
        /\ pc' = IF run.status = "rerun" THEN "rerun" ELSE "idle"
        /\ outcome' = [status |-> run.status, error |-> run.error,
                       upload_error |-> run.upload_error,
                       requests |-> run.requests]
        /\ UNCHANGED <<called, nav_option, uploaded_file, client, credit_info,
                       credit_score, monthly_income, card_database,
                       suitable_cards, returned>>

Navigate ==
    /\ pc = "idle"
    /\ \E page \in Pages \ {nav_option} :
           Run("navigate", page, uploaded_file, session_state.card_preferences)

LoadSample ==
    /\ pc = "idle"
    /\ Run("load_sample", nav_option, uploaded_file, preferences)

ChooseFile ==
    /\ pc = "idle"
    /\ \E file \in Files \ {uploaded_file} :
           Run("choose_file", nav_option, file, preferences)

PressAnalyzeReport ==
    /\ pc = "idle"
    /\ uploaded_file # None
    /\ Run("analyze_report", nav_option, uploaded_file, preferences)

RefreshCreditScore ==
    /\ PageShown("Credit Score Analysis")
    /\ Run("refresh_credit_score", nav_option, uploaded_file, preferences)

RefreshEmi ==
    /\ PageShown("EMI Affordability")
    /\ Run("refresh_emi", nav_option, uploaded_file, preferences)

RefreshCards ==
    /\ PageShown("Card Recommendations")
    /\ session_state.card_recommendations # Absent
    /\ SuitableCardsFor(session_state.credit_info, preferences).result.cards # <<>>
    /\ Run("refresh_cards", nav_option, uploaded_file, preferences)

ChangePreferences ==
    /\ pc = "idle"
    /\ nav_option = "Card Recommendations"
    /\ HasReport(session_state)
    /\ \E prefs \in Selections \ {preferences} :
           Run("change_preferences", nav_option, uploaded_file, prefs)

AskInChat ==
    /\ pc = "idle"
    /\ nav_option = "Financial Advisor"
    /\ HasReport(session_state)
    /\ Len(session_state.chat_history) + 2 <= MaxChat
    /\ Run("chat_input", nav_option, uploaded_file, preferences)

PressQuestion ==
    /\ PageShown("Financial Advisor")
    /\ Len(session_state.chat_history) + 2 <= MaxChat
    /\ \E button \in QuestionButtons :
           Run(button, nav_option, uploaded_file, preferences)

\* The buttons Show Sample JSON and Hide Sample JSON (lines 568-609) set only
\* show_sample_json, which no page reads; they are left out.
NextSession ==
    \/ Rerun
    \/ Navigate
    \/ LoadSample
    \/ ChooseFile
    \/ PressAnalyzeReport
    \/ RefreshCreditScore
    \/ RefreshEmi
    \/ RefreshCards
    \/ ChangePreferences
    \/ AskInChat
    \/ PressQuestion

SpecSession == InitSession /\ [][NextSession]_vars

----------------------------------------------------------------------------
(* Properties of get_suitable_cards *)

\* A requirement a card does not state is no requirement.
Requirement(card, key) == IF card[key] = Absent THEN 0 ELSE card[key].v

Category(card) == IF card.category = Absent THEN "" ELSE card.category.s

\* The credit score and the monthly income the call was made with, None
\* standing for the defaults of lines 328-331.
CalledScore == IF credit_score = None THEN 700 ELSE credit_score.v

CalledIncome == IF monthly_income = None THEN 50000 ELSE monthly_income.v

IsEligible(card) ==
    /\ Requirement(card, "credit_score_requirement") <= CalledScore
    /\ Requirement(card, "income_requirement") <= CalledIncome * 12

Passes(card) ==
    /\ IsEligible(card)
    /\ preferences # <<>> => \E i \in 1..Len(preferences) : preferences[i] = Category(card)

PairOf(card) == <<Requirement(card, "income_requirement"),
                  Requirement(card, "credit_score_requirement")>>

PairLess(p, q) == p[1] < q[1] \/ (p[1] = q[1] /\ p[2] < q[2])

Count(seq, card) == Cardinality({i \in 1..Len(seq) : seq[i] = card})

PassingIndexes == {i \in 1..Len(card_database) : Passes(card_database[i])}

IsPrefix(s, t) == Len(s) <= Len(t) /\ SubSeq(t, 1, Len(s)) = s

\* C2: every card get_suitable_cards returns for a numeric credit score and a
\* numeric monthly income has credit_score_requirement <= credit_score and
\* income_requirement <= monthly_income * 12.
C2_ReturnedCardsEligible ==
    (pc = "done" /\ IsNum(credit_score) /\ IsNum(monthly_income)) =>
        \A i \in 1..Len(returned) :
            /\ Requirement(returned[i], "credit_score_requirement") <= credit_score.v
            /\ Requirement(returned[i], "income_requirement") <= monthly_income.v * 12

\* C2 witness: a call with numeric arguments that returned some cards of the
\* catalog and rejected an ineligible one.
C2_Witness ==
    /\ pc = "done" /\ IsNum(credit_score) /\ IsNum(monthly_income)
    /\ returned # <<>>
    /\ preferences = <<>>
    /\ \E i \in 1..Len(card_database) : ~IsEligible(card_database[i])

\* C3: the list get_suitable_cards returns never has more than 5 entries.
C3_AtMostFive == pc = "done" => Len(returned) <= 5

\* C3 witness: more than 5 cards of the catalog are eligible and match, and
\* 5 are returned.
C3_Witness ==
    /\ pc = "done"
    /\ Cardinality(PassingIndexes) > 5
    /\ Len(returned) = 5

\* C4: with an empty preferences list the cards that pass (before the
\* truncation) are exactly the eligible cards; with a non-empty list they are
\* exactly the eligible cards whose category is a member of preferences,
\* compared case-sensitively.
C4_CategoryFilter ==
    pc = "done" =>
        /\ preferences = <<>> =>
              Range(suitable_cards) = {c \in Range(card_database) : IsEligible(c)}
        /\ preferences # <<>> =>
              Range(suitable_cards) =
                  {c \in Range(card_database) :
                      IsEligible(c) /\ Category(c) \in Range(preferences)}

\* C4 witness: a non-empty preferences list let one eligible card pass and
\* kept out an eligible card of another category, one that differs from a
\* preference only in letter case.
C4_Witness ==
    /\ pc = "done"
    /\ preferences = <<"Travel", "shopping">>
    /\ ShoppingCard \in Range(suitable_cards)
    /\ \E i \in 1..Len(card_database) :
          /\ IsEligible(card_database[i])
          /\ Category(card_database[i]) = "travel"
          /\ card_database[i] \notin Range(suitable_cards)

\* C5: the returned list is in descending order of the pair
\* (income_requirement, credit_score_requirement), and the returned cards of
\* one pair are in the order they have in the catalog.
C5_DescendingStable ==
    pc = "done" =>
        /\ \A i, j \in 1..Len(returned) :
              i < j => ~PairLess(PairOf(returned[i]), PairOf(returned[j]))
        /\ \A k \in 1..Len(returned) :
              LET SamePair(c) == PairOf(c) = PairOf(returned[k])
                  PassesSamePair(c) == Passes(c) /\ SamePair(c)
              IN IsPrefix(SelectSeq(returned, SamePair),
                          SelectSeq(card_database, PassesSamePair))

\* C5 witness: the card requiring income 1500000 was returned ahead of one
\* requiring 900000 that stands before it in the catalog, and two different
\* cards of one pair were returned in their catalog order.
C5_Witness ==
    /\ pc = "done"
    /\ Len(card_database) >= 3
    /\ card_database[1] = ShoppingCard
    /\ card_database[2] = SbiElite
    /\ card_database[3] = HdfcDinersBlack
    /\ Len(returned) >= 3
    /\ returned[1] = HdfcDinersBlack
    /\ returned[2] = ShoppingCard
    /\ returned[3] = SbiElite

\* C6: get_suitable_cards returns min(5, n) of the n eligible and matching
\* cards, and no card that is left out has a strictly larger pair than a
\* card that is returned.
C6_FirstFiveOfSorted ==
    pc = "done" =>
        /\ Len(returned) = Min(5, Cardinality(PassingIndexes))
        /\ \A i \in PassingIndexes : \A j \in 1..Len(returned) :
              PairLess(PairOf(returned[j]), PairOf(card_database[i])) =>
                  Count(returned, card_database[i]) =
                      Cardinality({m \in PassingIndexes :
                                      card_database[m] = card_database[i]})

\* C6 witness: six cards pass, five are returned, and the one left out has a
\* strictly smaller pair than the first returned card.
C6_Witness ==
    /\ pc = "done"
    /\ Cardinality(PassingIndexes) = 6
    /\ Len(returned) = 5
    /\ \E i \in PassingIndexes :
          /\ card_database[i] \notin Range(returned)
          /\ PairLess(PairOf(card_database[i]), PairOf(returned[1]))

\* C7: a call of get_suitable_cards leaves card_database as it was: the same
\* entries in the same order.
C7_CatalogUnchanged ==
    [][(pc = "start" /\ pc' = "done") => card_database' = card_database]_vars

\* C7 witness: every card of the catalog was returned, in an order that is
\* not the catalog's.
C7_Witness ==
    /\ pc = "done"
    /\ Len(returned) = Len(card_database)
    /\ returned # card_database

\* C8: a call with monthly_income None, 0 or negative returns the list a call
\* with monthly_income 50000 returns.
C8_IncomeNormalized ==
    (pc = "done" /\ (monthly_income = None \/ monthly_income.v <= 0)) =>
        returned = GetSuitableCardsResult(credit_score, Num(50000),
                                          preferences, card_database)

----------------------------------------------------------------------------
(* Properties of the profile computations *)

IsMissing(x) == x = Absent \/ x = None

\* the field, or the documented default when it is absent or null
FieldOr(info, key, default) ==
    IF IsMissing(info[key]) THEN default ELSE info[key]

\* the sum of the numeric values of key over the entries that are dicts
NumericSum(items, key) ==
    LET Numeric == {i \in 1..Len(items) :
                       /\ items[i] # None
                       /\ ~IsMissing(items[i][key])
                       /\ IsNum(items[i][key])}
        RECURSIVE Total(_)
        Total(S) == IF S = {} THEN 0
                    ELSE LET i == CHOOSE j \in S : TRUE
                         IN items[i][key].v + Total(S \ {i})
    IN Total(Numeric)

ItemsOf(field) == IF IsMissing(field) THEN <<>> ELSE field.items

\* C1: for a profile whose income is 0 or negative the debt-to-income ratio
\* is 0 wherever it is computed: in analyze_emi_affordability and in the Home
\* summary of main.
C1_RatioZeroWithoutIncome ==
    (/\ called \in {"analyze_emi_affordability", "home_summary"}
     /\ outcome.status = "ok"
     /\ IsNum(credit_info.income)
     /\ credit_info.income.v <= 0) =>
        outcome.result.debt_to_income_ratio = 0

\* C9: where EMIs or minimum dues are summed (analyze_emi_affordability,
\* visualize_debt_to_income, the Home summary), an entry that is null or
\* whose emi / minimum_due is missing, null or not a number adds 0, nothing
\* is raised, and the total is the sum of the numeric values.
C9_BadEntriesAddZero ==
    (/\ called \in {"analyze_emi_affordability", "visualize_debt_to_income",
                    "home_summary"}
     /\ credit_info.loans # None
     /\ credit_info.credit_cards # None) =>
        /\ outcome.status = "ok"
        /\ outcome.result.total_emi =
               NumericSum(ItemsOf(credit_info.loans), "emi")
        /\ outcome.result.card_minimum_dues =
               NumericSum(ItemsOf(credit_info.credit_cards), "minimum_due")

\* the entries of the list fields are loans and cards with numeric amounts
WellFormedEntries(info) ==
    /\ \A i \in 1..Len(ItemsOf(info.loans)) : ItemsOf(info.loans)[i] = PersonalLoan
    /\ \A i \in 1..Len(ItemsOf(info.credit_cards)) :
           ItemsOf(info.credit_cards)[i] = IciciCard

\* C10: whichever of the top-level fields are absent or null, each of
\* analyze_credit_score, analyze_emi_affordability, recommend_credit_cards,
\* provide_financial_advice, visualize_debt_to_income and get_suitable_cards
\* completes without raising, with 700 and 50000 in place of a missing
\* credit score and income.
C10_MissingFieldsDefaulted ==
    (/\ called \in {"analyze_credit_score", "analyze_emi_affordability",
                    "recommend_credit_cards", "provide_financial_advice",
                    "visualize_debt_to_income", "get_suitable_cards"}
     /\ WellFormedEntries(credit_info)) =>
        /\ outcome.status = "ok"
        /\ called \in {"analyze_credit_score", "recommend_credit_cards",
                       "provide_financial_advice"} =>
              outcome.result.credit_score = FieldOr(credit_info, "credit_score", Num(700))
        /\ called \in {"analyze_credit_score", "analyze_emi_affordability",
                       "recommend_credit_cards", "provide_financial_advice"} =>
              outcome.result.income = FieldOr(credit_info, "income", Num(50000))

\* no entry of the list is null
NoNullEntry(items) == \A i \in 1..Len(items) : items[i] # None

\* every field of every copied entry holds a value that is not null
NoNullField(copies, keys) ==
    \A i \in 1..Len(copies) : \A k \in keys : copies[i][k] # None

LoanKeys == {"type", "lender", "amount", "current_balance", "emi",
             "interest_rate", "tenure", "remaining_tenure"}

CardKeys == {"issuer", "limit", "outstanding", "minimum_due"}

\* C11: the safe profile of analyze_credit_score has no null list entry, and
\* the copies of loans and cards that analyze_emi_affordability and
\* provide_financial_advice build have no null entry and no null field.
C11_NoNullLeft ==
    /\ (called = "analyze_credit_score" /\ outcome.status = "ok") =>
          /\ NoNullEntry(outcome.result.safe_info.loans.items)
          /\ NoNullEntry(outcome.result.safe_info.credit_cards.items)
    /\ (called \in {"analyze_emi_affordability", "provide_financial_advice"}
        /\ outcome.status = "ok") =>
          /\ NoNullEntry(outcome.result.safe_loans)
          /\ NoNullEntry(outcome.result.safe_cards)
          /\ NoNullField(outcome.result.safe_loans, LoanKeys)
          /\ NoNullField(outcome.result.safe_cards, CardKeys)

\* the hundredth of a percent nearest to debt / income * 100
IsNearestHundredth(ratio, debt, income) ==
    /\ 2 * (ratio * income - debt * 10000) <= income
    /\ 2 * (debt * 10000 - ratio * income) <= income

\* C12: for the sample profile analyze_emi_affordability computes total_emi
\* 55000, minimum dues 4000, monthly_debt 59000 and a ratio of 39.33 percent;
\* for every profile with income > 0, monthly_debt is total_emi plus the
\* minimum dues and the ratio is monthly_debt / income * 100 to two decimals.
C12_SampleDebtRatio ==
    /\ (called = "analyze_emi_affordability" /\ credit_info = load_sample_data) =>
          /\ outcome.status = "ok"
          /\ outcome.result.total_emi = 55000
          /\ outcome.result.card_minimum_dues = 4000
          /\ outcome.result.monthly_debt = 59000
          /\ outcome.result.debt_to_income_ratio = 3933
    /\ (/\ called \in {"analyze_emi_affordability", "home_summary"}
        /\ outcome.status = "ok"
        /\ IsNum(credit_info.income)
        /\ credit_info.income.v > 0) =>
          /\ outcome.result.monthly_debt =
                 outcome.result.total_emi + outcome.result.card_minimum_dues
          /\ IsNearestHundredth(outcome.result.debt_to_income_ratio,
                                outcome.result.monthly_debt,
                                credit_info.income.v)

\* C12 witness: analyze_emi_affordability has run on the sample profile.
C12_Witness ==
    /\ called = "analyze_emi_affordability"
    /\ credit_info = load_sample_data
    /\ outcome.status = "ok"
    /\ outcome.result.monthly_debt = 59000

IsFiftyThirtyTwenty(result, income) ==
    /\ result.essentials = income * 5
    /\ result.wants = income * 3
    /\ result.savings = income * 2
    /\ result.essentials + result.wants + result.savings = income * 10

\* C13 as stated: for any non-negative income of the profile, 0 included,
\* the allocation is the 50/30/20 split of that income and sums to it.
C13_AllocationOfAnyIncome ==
    (/\ called = "visualize_debt_to_income"
     /\ IsNum(credit_info.income)
     /\ credit_info.income.v >= 0) =>
        IsFiftyThirtyTwenty(outcome.result, credit_info.income.v)

\* C13 as amended: for any positive income of the profile the allocation is
\* the 50/30/20 split of that income and sums to it; for an income of 0 it is
\* the 50/30/20 split of the default 50000.
C13_AllocationOfPositiveIncome ==
    (called = "visualize_debt_to_income" /\ IsNum(credit_info.income)) =>
        /\ credit_info.income.v > 0 =>
              IsFiftyThirtyTwenty(outcome.result, credit_info.income.v)
        /\ credit_info.income.v = 0 =>
              IsFiftyThirtyTwenty(outcome.result, 50000)

\* C13 witness: the chart was drawn for a profile with a positive income.
C13_Witness ==
    /\ called = "visualize_debt_to_income"
    /\ IsNum(credit_info.income)
    /\ credit_info.income.v = 80000
    /\ outcome.result.wants = 240000

----------------------------------------------------------------------------
(* Properties of the application *)

\* the text was generated by analyze_credit_score from this report
CreditScoreAnalysisOf(text, info) ==
    text.prompt = AnalyzeCreditScore(info).result

\* the text was generated by analyze_emi_affordability from this report
EmiAnalysisOf(text, info) ==
    LET prepared == AnalyzeEmiAffordability(info) IN
    prepared.status = "ok" /\ text.prompt = prepared.result

\* the text was generated by recommend_credit_cards from this report, for
\* whatever preferences
CardRecommendationsOf(text, info) ==
    LET prepared == RecommendCreditCards(info, <<>>) IN
    /\ prepared.status = "ok"
    /\ text.prompt.credit_score = prepared.result.credit_score
    /\ text.prompt.income = prepared.result.income
    /\ text.prompt.credit_cards = prepared.result.credit_cards

CachesFromCurrentReport(ss) ==
    /\ ss.credit_score_analysis # Absent
           => CreditScoreAnalysisOf(ss.credit_score_analysis, ss.credit_info)
    /\ ss.emi_analysis # Absent
           => EmiAnalysisOf(ss.emi_analysis, ss.credit_info)
    /\ ss.card_recommendations # Absent
           => CardRecommendationsOf(ss.card_recommendations, ss.credit_info)

\* C16: when Analyze Report has read the uploaded file, the run that is
\* left by st.rerun() has stored the uploaded data as credit_info, has
\* removed credit_score_analysis, emi_analysis and card_recommendations and
\* has emptied chat_history; after the run that follows, every analysis in
\* the session was generated from the uploaded report.
C16_UploadReplacesSession ==
    /\ (called = "analyze_report" /\ pc = "rerun")
           => /\ session_state.credit_info = JsonLoad(uploaded_file).result
              /\ session_state.credit_score_analysis = Absent
              /\ session_state.emi_analysis = Absent
              /\ session_state.card_recommendations = Absent
              /\ session_state.chat_history = <<>>
    /\ (called = "analyze_report" /\ pc = "idle" /\ ~outcome.upload_error)
           => /\ session_state.credit_info = JsonLoad(uploaded_file).result
              /\ session_state.chat_history = <<>>
              /\ CachesFromCurrentReport(session_state)

C16_Witness ==
    /\ called = "analyze_report"
    /\ pc = "rerun"
    /\ nav_option = "Financial Advisor"
    /\ session_state.credit_info = UploadedReport

\* C17: an analysis that a page displays was generated from the credit_info
\* the session holds, never from an earlier report.
C17_DisplayedAnalysisIsCurrent ==
    /\ (PageShown("Credit Score Analysis")
            /\ session_state.credit_score_analysis # Absent)
           => CreditScoreAnalysisOf(session_state.credit_score_analysis,
                                    session_state.credit_info)
    /\ (PageShown("EMI Affordability") /\ session_state.emi_analysis # Absent)
           => EmiAnalysisOf(session_state.emi_analysis,
                            session_state.credit_info)
    /\ (PageShown("Card Recommendations")
            /\ session_state.card_recommendations # Absent
            /\ SuitableCardsFor(session_state.credit_info,
                                preferences).result.cards # <<>>)
           => CardRecommendationsOf(session_state.card_recommendations,
                                    session_state.credit_info)

\* line 198: the preferences as the prompt names them
PreferenceStr(prefs) == IF prefs # <<>> THEN prefs ELSE <<"general purpose">>

\* the Card Recommendations page displays the recommendation text
RecommendationsDisplayed ==
    /\ PageShown("Card Recommendations")
    /\ SuitableCardsFor(session_state.credit_info, preferences).result.cards # <<>>

\* C18: when the Card Recommendations page displays the recommendation
\* text, the text was generated for the preference list that is selected.
C18_RecommendationForSelection ==
    RecommendationsDisplayed
        => /\ session_state.card_recommendations # Absent
           /\ session_state.card_recommendations.prompt.preference_str
                  = PreferenceStr(preferences)

C18_Witness ==
    /\ RecommendationsDisplayed
    /\ called = "change_preferences"
    /\ preferences = <<"travel">>
    /\ session_state.card_recommendations.prompt.preference_str = <<"travel">>

\* user, assistant, user, assistant, ...
Alternates(history) ==
    \A i \in 1..Len(history) :
        history[i].role = IF i % 2 = 1 THEN "user" ELSE "assistant"

\* C19: at the end of every script run chat_history alternates between user
\* and assistant messages, starts with a user message and ends with an
\* assistant message, also when the advice could not be generated.
C19_ChatAlternates ==
    /\ Alternates(session_state.chat_history)
    /\ Len(session_state.chat_history) % 2 = 0

\* C20: when json.load raises on the uploaded file, the run of Analyze
\* Report leaves credit_info, the three cached analyses and chat_history as
\* they were and shows the error message.
C20_FailedUploadKeepsSession ==
    [][(pc = "idle" /\ called' = "analyze_report"
            /\ JsonLoad(uploaded_file).status = "raise")
           => (session_state' = session_state /\ outcome'.upload_error)]_vars

C20_Witness ==
    /\ called = "analyze_report"
    /\ outcome.upload_error
    /\ session_state.credit_info = load_sample_data
    /\ session_state.chat_history # <<>>
    /\ session_state.credit_score_analysis # Absent

\* the run of this step called get_chatgpt_response from the function
Requested(function) ==
    \E i \in DOMAIN outcome'.requests : outcome'.requests[i] = function

\* the step is the run that a press of the button starts
Pressed(button) == pc = "idle" /\ called' = button

\* the run of this step rendered the page to its end
Rendered(page) ==
    /\ nav_option' = page
    /\ HasReport(session_state')
    /\ outcome'.status = "ok"

\* C22: a script run asks the service for a credit-score analysis or an EMI
\* analysis only when the session holds no such analysis at the start of
\* the run or the page's Refresh button was pressed; a run that renders the
\* page with the analysis cached and without a press of Refresh makes no
\* request and leaves the cached text as it was.
C22_AskedOnlyWithoutCache ==
    [][/\ Requested("analyze_credit_score")
              => \/ session_state.credit_score_analysis = Absent
                 \/ Pressed("refresh_credit_score")
       /\ Requested("analyze_emi_affordability")
              => \/ session_state.emi_analysis = Absent
                 \/ Pressed("refresh_emi")
       /\ (/\ Rendered("Credit Score Analysis")
           /\ session_state.credit_score_analysis # Absent
           /\ ~Pressed("refresh_credit_score"))
              => /\ outcome'.requests = <<>>
                 /\ session_state'.credit_score_analysis
                        = session_state.credit_score_analysis
       /\ (/\ Rendered("EMI Affordability")
           /\ session_state.emi_analysis # Absent
           /\ ~Pressed("refresh_emi"))
              => /\ outcome'.requests = <<>>
                 /\ session_state'.emi_analysis = session_state.emi_analysis]_vars

C22_Witness ==
    /\ PageShown("Credit Score Analysis")
    /\ called = "navigate"
    /\ session_state.credit_score_analysis # Absent
    /\ session_state.emi_analysis # Absent
    /\ outcome.requests = <<>>

----------------------------------------------------------------------------
(* Properties of get_chatgpt_response *)

FallbackMessages == {ApiKeyMessage, RateLimitMessage, ApologyMessage}

\* the text has the words API key, in these letters
NamesApiKey(text) ==
    \E i \in 1..(Len(text) - 1) : text[i] = "API" /\ text[i + 1] = "key"

\* the text has the words rate limit, in any letter case
NamesRateLimit(text) ==
    \E i \in 1..(Len(text) - 1) :
        /\ text[i] \in {"rate", "Rate"}
        /\ text[i + 1] \in {"limit", "LIMIT"}

\* C21: get_chatgpt_response returns a string in every case and raises
\* nothing; without a client it returns the client-is-not-available message
\* and does not call the service; when the call raises it returns the
\* API-key message if the error text names API key, else the rate-limit
\* message if the text names rate limit in any letter case, else the apology.
C21_FailureNeverPropagates ==
    (pc = "done" /\ called = "get_chatgpt_response")
        => /\ outcome.status = "ok"
           /\ outcome.result.t = "str"
           /\ client = None
                  => /\ outcome.result.s = ClientUnavailableMessage
                     /\ outcome.requests = 0
           /\ (client # None /\ client.create.status = "raise")
                  => /\ outcome.requests = 1
                     /\ outcome.result.s \in FallbackMessages
                     /\ outcome.result.s = ApiKeyMessage
                            <=> NamesApiKey(client.create.error)
                     /\ outcome.result.s = RateLimitMessage
                            <=> (/\ ~NamesApiKey(client.create.error)
                                 /\ NamesRateLimit(client.create.error))

C21_Witness ==
    /\ pc = "done"
    /\ called = "get_chatgpt_response"
    /\ client # None
    /\ client.create.status = "raise"
    /\ client.create.error = <<"API", "key", "Rate", "LIMIT">>
    /\ outcome.result.s = ApiKeyMessage

====
